---- MODULE Spec2Model ----
(***************************************************************************)
(* Cooperative cancellation of a streamed agent response.                  *)
(*                                                                         *)
(*   RedisClient          services/redis_client.py  the stop-signal store  *)
(*   AgentOrchestrator    agent/agent_core.py       the run: pull, poll,   *)
(*                                                  yield                  *)
(*   StrandsToAGUIBridge  agent/agui_bridge.py      chunks -> ag-ui events *)
(*   start_chat/stop_chat api/chat.py, api/stop.py  the HTTP endpoints     *)
(*                                                                         *)
(* A run is one async generator chain.  Its suspension points are the pull *)
(* of the next event from agent.stream_async, the Redis round trip of      *)
(* _check_stop, and the hand-over of a yielded chunk to its consumer       *)
(* (convert_stream or generate_sse); the actions below are the code        *)
(* between two suspension points.  A Redis command either executes         *)
(* atomically on the server or raises without having executed.             *)
(***************************************************************************)
EXTENDS Naturals, Sequences, FiniteSets, TLC

\* Fragments a generation source delivers to a run before a stop is recorded:
\* for a single run, and for each of two concurrent runs.
MaxFrags == 2
PairFrags == 1

Runs == {"r1", "r2"}
Sessions == {"s1", "s2"}

None == <<>>                              \* Python None
Nil == "(nil)"                            \* the Redis nil reply
STOPPED == "[STOPPED]"                    \* agent_core.py:77, agui_bridge.py:60
STOP_MARKER == "\n[Agent stopped by user]"
DONE == "[DONE]"
ERROR == "[ERROR] source failure"
SOURCE_FAILURE == "source failure"        \* str(error) of the source's exception

\* Events of agent.stream_async: text events carry "data", others do not.
TextEvents == {[data |-> t] : t \in {"a", "b", "", " ", STOPPED}}
ControlEvents == {[init_event_loop |-> TRUE]}
Events == TextEvents \cup ControlEvents
FewEvents == {[data |-> "a"]}

\* Outcome of one Redis round trip.
Outcomes == {"ok", "fail"}

VARIABLES
    client,              \* RedisClient._client is set
    serving,             \* lifespan start-up succeeded: the endpoints answer
    db,                  \* Redis keyspace: key -> value or Nil
    requests,            \* the runs the clients will start
    vocab,               \* the events the generation source can produce
    limit,               \* the fragments a source delivers before a stop
    pc,                  \* position of each run's generator chain
    mode,                \* consumer of stream_response: "sse" or "bridge"
    http,                \* status of the chat request, 0 before it is made
    chat_id,             \* AgentOrchestrator.chat_id
    requested_stop,      \* AgentOrchestrator.requested_stop
    aborted,             \* agent.tool.stop() was called
    event,               \* the loop variable of stream_response: the last event pulled
    chan,                \* the chunk yielded and not yet consumed
    current_message_id,  \* StrandsToAGUIBridge.current_message_id
    uuids,               \* uuid4 calls made for message ids, per run
    out,                 \* what the run has handed to the transport
    frags,               \* history: events pulled before a stop was recorded
    fate,                \* history: how the source ended: none, ended, raised
    stopLen,             \* history: Len(out) when the stop was consumed
    pulledAfterStop,     \* history: an event was pulled after the stop
    pollFailed,          \* history: a poll of this run failed
    took,                \* history: a GETDEL of this run replied with a signal
    sets,                \* history: successful sets since the key was cleared
    total,               \* history: successful sets ever, per session
    consumed,            \* history: the sets the last truthy GETDEL consumed
    missed,              \* history: a healthy check found nothing after a consume
    stale                \* history: the signal in the store was written with
                         \* no run of its session left to poll; who took it

storeVars == <<client, serving, db>>
worldVars == <<requests, vocab, limit>>
runVars == <<pc, mode, http, chat_id, requested_stop, aborted, event, chan,
             current_message_id, uuids, out>>
runHist == <<frags, fate, stopLen, pulledAfterStop, pollFailed, took>>
storeHist == <<sets, total, consumed, missed, stale>>
vars == <<storeVars, worldVars, runVars, runHist, storeHist>>

----------------------------------------------------------------------------
(* RedisClient *)

\* One key for every chat: the id is left out of the key.
StopKey_shared(id) == <<"stop", "s1">>

StopKey(id) == <<"stop", id>>
Keys == {StopKey(s) : s \in Sessions}

\* Python truthiness of a Redis reply.
Truthy(v) == v # Nil /\ v # ""

\* APPEND in place of SETEX: every set adds to the value already there.
setex_appends(d, key, value) ==
    [d EXCEPT ![key] = IF @ = Nil THEN value ELSE "11"]

\* SETEX key ttl value: the key holds the value until it expires.
setex(d, key, value) == [d EXCEPT ![key] = value]

\* GET in place of GETDEL: the reply without the delete.
getdel_keeps(d, key) == [result |-> d[key], db |-> d]

\* GETDEL key: the reply and the keyspace after it, in one server step.
getdel(d, key) == [result |-> d[key], db |-> [d EXCEPT ![key] = Nil]]

ping(c, o) == c /\ o = "ok"

set_stop_signal(c, d, id, o) ==
    IF ~c THEN [ret |-> FALSE, db |-> d]
    ELSE IF o # "ok" THEN [ret |-> FALSE, db |-> d]
    ELSE [ret |-> TRUE, db |-> setex(d, StopKey(id), "1")]

\* GET, with the DEL left to a later round trip: the reply and an untouched key.
check_stop_signal_get(c, d, id, o) ==
    IF ~c THEN [ret |-> FALSE, db |-> d]
    ELSE IF o # "ok" THEN [ret |-> FALSE, db |-> d]
    ELSE [ret |-> Truthy(d[StopKey(id)]), db |-> d]

check_stop_signal(c, d, id, o) ==
    IF ~c THEN [ret |-> FALSE, db |-> d]
    ELSE IF o # "ok" THEN [ret |-> FALSE, db |-> d]
    ELSE LET g == getdel(d, StopKey(id))
         IN  [ret |-> Truthy(g.result), db |-> g.db]

----------------------------------------------------------------------------
(* AgentOrchestrator *)

\* Fail-closed _check_stop: a poll that cannot reach the store answers True.
check_stop_fail_closed(rs, c, d, id, o) ==
    IF rs THEN [ret |-> TRUE, requested_stop |-> TRUE, db |-> d]
    ELSE IF ~c \/ o # "ok" THEN [ret |-> TRUE, requested_stop |-> TRUE, db |-> d]
    ELSE LET g == getdel(d, StopKey(id))
         IN  [ret |-> Truthy(g.result), requested_stop |-> Truthy(g.result),
              db |-> g.db]

\* _check_stop that sets the flag on every answered round trip, whatever the
\* reply says.
check_stop_flags_any_reply(rs, c, d, id, o) ==
    IF rs THEN [ret |-> TRUE, requested_stop |-> TRUE, db |-> d]
    ELSE LET s == check_stop_signal(c, d, id, o)
         IN  [ret |-> s.ret, requested_stop |-> (c /\ o = "ok"), db |-> s.db]

\* _check_stop: the flag short-circuits; otherwise one check_stop_signal,
\* whose True sets the flag.  A failure leaves the flag alone: False.
check_stop(rs, c, d, id, o) ==
    IF rs THEN [ret |-> TRUE, requested_stop |-> TRUE, db |-> d]
    ELSE LET s == check_stop_signal(c, d, id, o)
         IN  [ret |-> s.ret, requested_stop |-> s.ret, db |-> s.db]

\* An iteration that lets the pulled event through before it stops: on a stop
\* the event's data is yielded in place of "[STOPPED]".
Yielded_late(ev, stop) ==
    IF "data" \in DOMAIN ev THEN <<ev.data>>
    ELSE IF stop THEN <<STOPPED>>
    ELSE <<>>

\* What one iteration of stream_response yields for the pulled event,
\* given the answer of _check_stop: at most one chunk.
Yielded(ev, stop) ==
    IF stop THEN <<STOPPED>>
    ELSE IF "data" \in DOMAIN ev THEN <<ev.data>>
    ELSE <<>>

----------------------------------------------------------------------------
(* StrandsToAGUIBridge *)

RunStarted(thread, run) ==
    [type |-> "RUN_STARTED", thread_id |-> thread, run_id |-> run]
TextMessageChunk(mid, text) ==
    [type |-> "TEXT_MESSAGE_CHUNK", message_id |-> mid, delta |-> text]
RunFinished(thread, run) ==
    [type |-> "RUN_FINISHED", thread_id |-> thread, run_id |-> run]
RunError(msg) ==
    [type |-> "RUN_ERROR", message |-> msg]

\* str.strip() on the texts of the vocabulary: blank texts strip to "".
Strip(t) == IF t \in {"", " "} THEN "" ELSE t

\* A uuid4 for every call: the id kept from earlier calls is not reused.
get_or_create_message_id_fresh(mid, r, n) ==
    [id |-> <<r, n + 1>>, uuids |-> n + 1]

\* _get_or_create_message_id: the id and the number of uuid4 calls so far.
get_or_create_message_id(mid, r, n) ==
    IF mid = None THEN [id |-> <<r, n + 1>>, uuids |-> n + 1]
    ELSE [id |-> mid, uuids |-> n]

\* convert_stream without the break after the stop marker.
convert_chunk_no_break(mid, r, n, chunk) ==
    LET m == IF mid = None THEN [id |-> <<r, n + 1>>, uuids |-> n + 1]
             ELSE [id |-> mid, uuids |-> n] IN
    IF chunk = STOPPED
    THEN [emit |-> <<TextMessageChunk(m.id, STOP_MARKER)>>,
          mid |-> m.id, uuids |-> m.uuids, brk |-> FALSE]
    ELSE IF chunk \notin {"", " "}
    THEN [emit |-> <<TextMessageChunk(m.id, chunk)>>,
          mid |-> m.id, uuids |-> m.uuids, brk |-> FALSE]
    ELSE [emit |-> <<>>, mid |-> mid, uuids |-> n, brk |-> FALSE]

\* One iteration of convert_stream's loop on a chunk: the envelopes emitted,
\* the message id afterwards, and whether the loop breaks.
convert_chunk(mid, r, n, chunk) ==
    LET m == get_or_create_message_id(mid, r, n) IN
    IF chunk = STOPPED
    THEN [emit |-> <<TextMessageChunk(m.id, STOP_MARKER)>>,
          mid |-> m.id, uuids |-> m.uuids, brk |-> TRUE]
    ELSE IF Strip(chunk) # ""
    THEN [emit |-> <<TextMessageChunk(m.id, chunk)>>,
          mid |-> m.id, uuids |-> m.uuids, brk |-> FALSE]
    ELSE [emit |-> <<>>, mid |-> mid, uuids |-> n, brk |-> FALSE]

\* An except clause that lets the exception through: nothing is emitted.
bridge_except_reraises(msg) == <<>>

\* convert_stream after its loop, and its except clause.
bridge_finish(thread, run) == <<RunFinished(thread, run)>>
bridge_except(msg) == <<RunError(msg)>>

----------------------------------------------------------------------------
(* start_chat.generate_sse *)

SseData(chunk) == [data |-> chunk]        \* f"data: {chunk}\n\n"
sse_chunk(chunk) == <<SseData(chunk)>>
sse_finish == <<SseData(DONE)>>
sse_except == <<SseData(ERROR)>>

----------------------------------------------------------------------------
(* Initial states *)

\* Counting of history: none, one, many.
More(n) == IF n = "none" THEN "one" ELSE "many"

InitWith(rs, evs, n) ==
    /\ client = FALSE
    /\ serving = FALSE
    /\ db = [k \in Keys |-> Nil]
    /\ requests = rs
    /\ vocab = evs
    /\ limit = n
    /\ pc = [r \in Runs |-> "idle"]
    /\ mode = [r \in Runs |-> "none"]
    /\ http = [r \in Runs |-> 0]
    /\ chat_id = [r \in Runs |-> "s1"]
    /\ requested_stop = [r \in Runs |-> FALSE]
    /\ aborted = [r \in Runs |-> FALSE]
    /\ event = [r \in Runs |-> <<>>]
    /\ chan = [r \in Runs |-> <<>>]
    /\ current_message_id = [r \in Runs |-> None]
    /\ uuids = [r \in Runs |-> 0]
    /\ out = [r \in Runs |-> <<>>]
    /\ frags = [r \in Runs |-> <<>>]
    /\ fate = [r \in Runs |-> "none"]
    /\ stopLen = [r \in Runs |-> 0]
    /\ pulledAfterStop = [r \in Runs |-> FALSE]
    /\ pollFailed = [r \in Runs |-> FALSE]
    /\ took = [r \in Runs |-> FALSE]
    /\ sets = [s \in Sessions |-> "none"]
    /\ total = [s \in Sessions |-> "none"]
    /\ consumed = [s \in Sessions |-> "none"]
    /\ missed = [s \in Sessions |-> FALSE]
    /\ stale = [s \in Sessions |-> "none"]

\* One run, any event of the vocabulary.
Init == InitWith({"r1"}, Events, MaxFrags)

\* Two runs, a small vocabulary.
InitPair == InitWith(Runs, FewEvents, PairFrags)

----------------------------------------------------------------------------
(* Lifespan and environment *)

\* main.lifespan: RedisClient.initialize sets _client, then pings; a failed
\* ping aborts start-up and the application never serves.
Initialize ==
    /\ ~serving
    /\ \E o \in Outcomes :
        /\ client' = TRUE
        /\ serving' = (o = "ok")
    /\ UNCHANGED <<db, worldVars, runVars, runHist, storeHist>>

\* The 3600 s of SETEX elapse: the key is gone.
Expire(s) ==
    /\ db[StopKey(s)] # Nil
    /\ db' = [db EXCEPT ![StopKey(s)] = Nil]
    /\ sets' = [sets EXCEPT ![s] = "none"]
    /\ consumed' = [consumed EXCEPT ![s] = "none"]
    /\ stale' = [stale EXCEPT ![s] = "none"]
    /\ UNCHANGED <<client, serving, worldVars, runVars, runHist, total, missed>>

----------------------------------------------------------------------------
(* Endpoints *)

\* No run of session s will call _check_stop's GETDEL again: each of its runs
\* is over or has requested_stop set (agent_core.py:70-71).
WillNotPoll(s) ==
    \A r \in Runs :
        (mode[r] # "none" /\ chat_id[r] = s) =>
            pc[r] = "done" \/ requested_stop[r]

\* POST /stop/{chat_id}: verify_redis, then set_stop_signal.
StopChat(s) ==
    /\ serving
    /\ \E o1 \in Outcomes, o2 \in Outcomes :
        LET w == set_stop_signal(client, db, s, o2)
            ok == ping(client, o1) /\ w.ret
        IN  /\ db' = IF ping(client, o1) THEN w.db ELSE db
            /\ sets' = IF ok THEN [sets EXCEPT ![s] = More(@)] ELSE sets
            /\ total' = IF ok THEN [total EXCEPT ![s] = More(@)] ELSE total
            /\ consumed' = IF ok THEN [consumed EXCEPT ![s] = "none"] ELSE consumed
            /\ missed' = IF ok THEN [missed EXCEPT ![s] = FALSE] ELSE missed
            /\ stale' = IF ~ok THEN stale
                        ELSE IF WillNotPoll(s) \/ stale[s] = "kept"
                        THEN [stale EXCEPT ![s] = "kept"]
                        ELSE [stale EXCEPT ![s] = "none"]
    /\ UNCHANGED <<client, serving, worldVars, runVars, runHist>>

\* POST /chat/{chat_id}: verify_redis answers 503 when the ping fails;
\* otherwise an AgentOrchestrator is built and generate_sse is returned.
StartChat(r, s) ==
    /\ r \in requests
    /\ pc[r] = "idle"
    /\ serving
    /\ \E o \in Outcomes :
        IF ping(client, o)
        THEN /\ pc' = [pc EXCEPT ![r] = "pull"]
             /\ mode' = [mode EXCEPT ![r] = "sse"]
             /\ http' = [http EXCEPT ![r] = 200]
             /\ chat_id' = [chat_id EXCEPT ![r] = s]
             /\ requested_stop' = [requested_stop EXCEPT ![r] = FALSE]
        ELSE /\ pc' = [pc EXCEPT ![r] = "rejected"]
             /\ http' = [http EXCEPT ![r] = 503]
             /\ UNCHANGED <<mode, chat_id, requested_stop>>
    /\ UNCHANGED <<storeVars, worldVars, aborted, event, chan,
                   current_message_id, uuids, out, runHist, storeHist>>

\* StrandsToAGUIBridge(thread_id).convert_stream(
\*     AgentOrchestrator(chat_id).stream_response(message)):
\* RUN_STARTED is emitted before the first pull.
StartBridge(r, s) ==
    /\ r \in requests
    /\ pc[r] = "idle"
    /\ pc' = [pc EXCEPT ![r] = "pull"]
    /\ mode' = [mode EXCEPT ![r] = "bridge"]
    /\ chat_id' = [chat_id EXCEPT ![r] = s]
    /\ requested_stop' = [requested_stop EXCEPT ![r] = FALSE]
    /\ current_message_id' = [current_message_id EXCEPT ![r] = None]
    /\ out' = [out EXCEPT ![r] = <<RunStarted(s, r)>>]
    /\ UNCHANGED <<storeVars, worldVars, http, aborted, event, chan, uuids,
                   runHist, storeHist>>

----------------------------------------------------------------------------
(* One run: stream_response and its consumer *)

\* What the consumer emits when stream_response ends, and when it raises.
Finish(r) ==
    IF mode[r] = "bridge" THEN bridge_finish(chat_id[r], r) ELSE sse_finish
Except(r) ==
    IF mode[r] = "bridge" THEN bridge_except(SOURCE_FAILURE) ELSE sse_except

\* The loop without its `if self.requested_stop: continue`: every event pulled
\* goes on to _check_stop.
PullFragment_no_skip(r) ==
    /\ pc[r] = "pull"
    /\ Len(frags[r]) < limit
    /\ \E e \in vocab :
        /\ event' = [event EXCEPT ![r] = <<e>>]
        /\ frags' = [frags EXCEPT ![r] = Append(@, e)]
        /\ pc' = [pc EXCEPT ![r] = "poll"]
    /\ UNCHANGED <<storeVars, worldVars, mode, http, chat_id, requested_stop,
                   aborted, chan, current_message_id, uuids, out, fate,
                   stopLen, pulledAfterStop, pollFailed, took, storeHist>>

\* agent.stream_async delivers an event.  With requested_stop set the loop
\* continues at once (agent_core.py:70-71): the event is dropped and the next
\* one is awaited.
PullFragment(r) ==
    /\ pc[r] = "pull"
    /\ \E e \in vocab :
        IF requested_stop[r]
        THEN /\ event' = [event EXCEPT ![r] = <<e>>]
             /\ pulledAfterStop' = [pulledAfterStop EXCEPT ![r] = TRUE]
             /\ UNCHANGED <<pc, frags>>
        ELSE /\ Len(frags[r]) < limit
             /\ event' = [event EXCEPT ![r] = <<e>>]
             /\ frags' = [frags EXCEPT ![r] = Append(@, e)]
             /\ pc' = [pc EXCEPT ![r] = "poll"]
             /\ UNCHANGED pulledAfterStop
    /\ UNCHANGED <<storeVars, worldVars, mode, http, chat_id, requested_stop,
                   aborted, chan, current_message_id, uuids, out, fate,
                   stopLen, pollFailed, took, storeHist>>

\* The Redis round trip of _check_stop and the rest of the iteration: on a
\* stop, agent.tool.stop() and yield "[STOPPED]"; otherwise the event's data,
\* if it has any.  agent.tool.stop() is a hint to the source: it returns, and
\* the source is free to go on delivering events.
Poll(r) ==
    /\ pc[r] = "poll"
    /\ \E o \in Outcomes :
        LET s == chat_id[r]
            c == check_stop(requested_stop[r], client, db, s, o)
            y == Yielded(event[r][1], c.ret)
            healthy == client /\ o = "ok"
            signal == healthy /\ Truthy(db[StopKey(s)])
        IN  /\ db' = c.db
            /\ requested_stop' = [requested_stop EXCEPT ![r] = c.requested_stop]
            /\ aborted' = [aborted EXCEPT ![r] = @ \/ c.ret]
            /\ chan' = [chan EXCEPT ![r] = y]
            /\ pc' = [pc EXCEPT ![r] = IF y = <<>> THEN "pull" ELSE "yielded"]
            /\ pollFailed' = [pollFailed EXCEPT ![r] = @ \/ ~healthy]
            /\ took' = [took EXCEPT ![r] = @ \/ signal]
            /\ stopLen' = [stopLen EXCEPT ![r] = IF signal THEN Len(out[r]) ELSE @]
            /\ consumed' = IF signal THEN [consumed EXCEPT ![s] = sets[s]]
                           ELSE consumed
            /\ sets' = IF signal THEN [sets EXCEPT ![s] = "none"] ELSE sets
            /\ missed' = IF healthy /\ ~signal /\ consumed[s] # "none"
                         THEN [missed EXCEPT ![s] = TRUE] ELSE missed
            /\ stale' = IF ~signal THEN stale
                        ELSE IF stale[s] = "kept" /\ Len(frags[r]) = 1
                        THEN [stale EXCEPT ![s] = "taken"]
                        ELSE [stale EXCEPT ![s] = "none"]
    /\ UNCHANGED <<client, serving, worldVars, mode, http, chat_id, event,
                   current_message_id, uuids, out, frags, fate,
                   pulledAfterStop, total>>

\* The consumer takes the yielded chunk.  convert_stream emits at most one
\* TEXT_MESSAGE_CHUNK and, on "[STOPPED]", breaks and emits RUN_FINISHED;
\* generate_sse frames every chunk and asks for the next one.
Consume(r) ==
    /\ pc[r] = "yielded"
    /\ IF mode[r] = "bridge"
       THEN LET b == convert_chunk(current_message_id[r], r, uuids[r], chan[r][1])
            IN  /\ current_message_id' = [current_message_id EXCEPT ![r] = b.mid]
                /\ uuids' = [uuids EXCEPT ![r] = b.uuids]
                /\ out' = [out EXCEPT ![r] =
                             IF b.brk THEN @ \o b.emit \o Finish(r)
                             ELSE @ \o b.emit]
                /\ pc' = [pc EXCEPT ![r] = IF b.brk THEN "done" ELSE "pull"]
       ELSE /\ out' = [out EXCEPT ![r] = @ \o sse_chunk(chan[r][1])]
            /\ pc' = [pc EXCEPT ![r] = "pull"]
            /\ UNCHANGED <<current_message_id, uuids>>
    /\ chan' = [chan EXCEPT ![r] = <<>>]
    /\ UNCHANGED <<storeVars, worldVars, mode, http, chat_id, requested_stop,
                   aborted, event, runHist, storeHist>>

\* agent.stream_async is exhausted: stream_response returns and the consumer
\* leaves its loop.
SourceEnds(r) ==
    /\ pc[r] = "pull"
    /\ fate' = [fate EXCEPT ![r] = "ended"]
    /\ out' = [out EXCEPT ![r] = @ \o Finish(r)]
    /\ pc' = [pc EXCEPT ![r] = "done"]
    /\ UNCHANGED <<storeVars, worldVars, mode, http, chat_id, requested_stop,
                   aborted, event, chan, current_message_id, uuids, frags,
                   stopLen, pulledAfterStop, pollFailed, took, storeHist>>

\* agent.stream_async raises: stream_response has no handler, so the
\* exception reaches the consumer's except clause.
SourceRaises(r) ==
    /\ pc[r] = "pull"
    /\ fate' = [fate EXCEPT ![r] = "raised"]
    /\ out' = [out EXCEPT ![r] = @ \o Except(r)]
    /\ pc' = [pc EXCEPT ![r] = "done"]
    /\ UNCHANGED <<storeVars, worldVars, mode, http, chat_id, requested_stop,
                   aborted, event, chan, current_message_id, uuids, frags,
                   stopLen, pulledAfterStop, pollFailed, took, storeHist>>

----------------------------------------------------------------------------
(* Specifications *)

Next ==
    \/ Initialize
    \/ \E s \in Sessions : Expire(s)
    \/ \E s \in Sessions : StopChat(s)
    \/ \E r \in Runs, s \in Sessions : StartChat(r, s)
    \/ \E r \in Runs, s \in Sessions : StartBridge(r, s)
    \/ \E r \in Runs : PullFragment(r)
    \/ \E r \in Runs : Poll(r)
    \/ \E r \in Runs : Consume(r)
    \/ \E r \in Runs : SourceEnds(r)
    \/ \E r \in Runs : SourceRaises(r)

Spec == Init /\ [][Next]_vars

SpecPair == InitPair /\ [][Next]_vars

\* The event loop runs every generator that can take a step, and the source
\* goes on delivering events; nothing makes a source end.
Fairness ==
    \A r \in Runs : /\ WF_vars(PullFragment(r))
                    /\ WF_vars(Poll(r))
                    /\ WF_vars(Consume(r))

FairSpec == Init /\ [][Next]_vars /\ Fairness

----------------------------------------------------------------------------
(* Properties *)

Terminal == {"RUN_FINISHED", "RUN_ERROR"}
BridgeRuns == {r \in Runs : mode[r] = "bridge"}
SseRuns == {r \in Runs : mode[r] = "sse"}

\* The texts the source delivered, in source order.
HasData(e) == "data" \in DOMAIN e
TextsOf(es) ==
    LET ts == SelectSeq(es, HasData) IN [i \in 1..Len(ts) |-> ts[i].data]

\* C1: the wire sequence of a bridged run starts with its only RUN_STARTED,
\* holds only content deltas after it until the run is over, and ends, exactly
\* when the run is over, with its only terminal envelope, whatever the
\* fragments, the stop requests, the store failures and the source failures.
C1_WireWellFormed ==
    \A r \in BridgeRuns :
        LET w == out[r]
            n == Len(w)
        IN  /\ n >= 1
            /\ w[1].type = "RUN_STARTED"
            /\ \A i \in 2..(n - 1) : w[i].type = "TEXT_MESSAGE_CHUNK"
            /\ n >= 2 => w[n].type \in Terminal \cup {"TEXT_MESSAGE_CHUNK"}
            /\ pc[r] = "done" <=> (n >= 2 /\ w[n].type \in Terminal)

\* C1 witness: a bridged run that forwarded two deltas, had a poll fail and
\* ended on a source failure.
C1_Witness ==
    \E r \in BridgeRuns :
        /\ pc[r] = "done"
        /\ fate[r] = "raised"
        /\ pollFailed[r]
        /\ Len(out[r]) = 4

\* C2: once a bridged run has consumed a stop signal, nothing is forwarded
\* but the stop marker: the wire sequence is what had been emitted when the
\* signal was consumed, then the stop-marker delta, then RUN_FINISHED.
C2_StopCutsContent ==
    \A r \in BridgeRuns :
        took[r] =>
            LET w == out[r]
                k == stopLen[r]
            IN  /\ k <= Len(frags[r])
                /\ IF pc[r] = "done"
                   THEN /\ Len(w) = k + 2
                        /\ w[k + 1].type = "TEXT_MESSAGE_CHUNK"
                        /\ w[k + 1].delta = STOP_MARKER
                        /\ w[k + 2].type = "RUN_FINISHED"
                   ELSE Len(w) = k

\* C2 witness: a bridged run stopped after it had forwarded one fragment.
C2_Witness ==
    \E r \in BridgeRuns :
        /\ took[r]
        /\ pc[r] = "done"
        /\ stopLen[r] = 2
        /\ Len(frags[r]) = 2

\* C3: when the source raises and no stop was consumed, the wire sequence is
\* RUN_STARTED, one delta per text-carrying fragment in source order, then
\* RUN_ERROR.
C3_ErrorAfterAllDeltas ==
    \A r \in BridgeRuns :
        (fate[r] = "raised" /\ ~took[r]) =>
            LET w == out[r]
                n == Len(w)
            IN  /\ n >= 2
                /\ w[1].type = "RUN_STARTED"
                /\ w[n].type = "RUN_ERROR"
                /\ \A i \in 2..(n - 1) : w[i].type = "TEXT_MESSAGE_CHUNK"
                /\ [i \in 1..(n - 2) |-> w[i + 1].delta] = TextsOf(frags[r])

\* C4: once a run has consumed a stop signal, stream_response pulls no
\* further event from the generation source.
C4_NoPullAfterStop ==
    \A r \in Runs : ~pulledAfterStop[r]

\* C5: a run that has consumed a stop signal reaches the end of its stream,
\* also when the source never stops delivering events.
C5_StoppedRunEnds ==
    \A r \in Runs : took[r] ~> (pc[r] = "done")

\* The events whose chunk, if any, the consumer has already taken.
Handled(r) ==
    IF pc[r] \in {"poll", "yielded"}
    THEN SubSeq(frags[r], 1, Len(frags[r]) - 1)
    ELSE frags[r]

\* The run of convert_stream's loop over chunks, from message id mid.
RECURSIVE Converted(_, _, _, _)
Converted(mid, r, n, chunks) ==
    IF chunks = <<>> THEN [emit |-> <<>>, brk |-> FALSE]
    ELSE LET b == convert_chunk(mid, r, n, Head(chunks)) IN
         IF b.brk THEN [emit |-> b.emit, brk |-> TRUE]
         ELSE LET rest == Converted(b.mid, r, b.uuids, Tail(chunks))
              IN  [emit |-> b.emit \o rest.emit, brk |-> rest.brk]

\* The chunks stream_response yields for events when no poll finds a signal.
RECURSIVE Unstopped(_)
Unstopped(es) ==
    IF es = <<>> THEN <<>>
    ELSE Yielded(Head(es), FALSE) \o Unstopped(Tail(es))

\* What the consumer has emitted for run r when the store is healthy and no
\* signal is ever set: the code's own steps over the same events, every poll
\* answering False.
Undisturbed(r) ==
    LET chunks == Unstopped(Handled(r))
        close == IF fate[r] = "ended" THEN Finish(r)
                 ELSE IF fate[r] = "raised" THEN Except(r)
                 ELSE <<>>
    IN  IF mode[r] = "bridge"
        THEN LET c == Converted(None, r, 0, chunks)
             IN  <<RunStarted(chat_id[r], r)>> \o c.emit
                 \o (IF c.brk THEN Finish(r) ELSE close)
        ELSE [i \in 1..Len(chunks) |-> SseData(chunks[i])] \o close

\* C6: a run that consumes no stop signal emits, whether or not its polls of
\* the store failed, exactly what the same run emits with a healthy store and
\* no signal.
C6_FailOpen ==
    \A r \in BridgeRuns \cup SseRuns :
        ~took[r] => out[r] = Undisturbed(r)

\* C6 witness: a run over two fragments, with a failed poll and no stop
\* consumed, came to its natural end.
C6_Witness ==
    \E r \in BridgeRuns \cup SseRuns :
        /\ pollFailed[r]
        /\ ~took[r]
        /\ fate[r] = "ended"
        /\ Len(frags[r]) = 2
        /\ Len(out[r]) >= 3

\* C7: no chat request is refused because the signal store cannot be
\* reached.
C7_ChatNeverRefused ==
    \A r \in Runs : pc[r] # "rejected" /\ http[r] # 503

\* A poll of run r answers True in this step.
SeesStop(r) == ~requested_stop[r] /\ requested_stop'[r]

\* C8: a check answers True only if a set succeeded since the key was last
\* cleared; so of two checks with no set between them at most one is True.
C8_DestructiveRead ==
    [][\A r \in Runs : SeesStop(r) => sets[chat_id[r]] # "none"]_vars

\* C8 witness: after one set, a check answered True and the next healthy
\* check of the same session, with no set in between, answered False.
C8_Witness ==
    \E s \in Sessions : consumed[s] = "one" /\ missed[s]

\* C9: any number of successful sets before a consume leaves the key as one
\* set leaves it, and a consume leaves nothing behind however many sets came
\* before it: one check answers True, the later ones False until the next set.
C9_IdempotentSet ==
    \A s \in Sessions :
        LET k == StopKey(s)
            once == setex([j \in Keys |-> Nil], k, "1")
        IN  db[k] = IF sets[s] = "none" THEN Nil ELSE once[k]

\* C9 witness: a signal set more than once was consumed by one check, and a
\* later healthy check of the session answered False.
C9_Witness ==
    \E s \in Sessions : consumed[s] = "many" /\ missed[s]

\* History counts as numbers.
Count(n) == IF n = "none" THEN 0 ELSE IF n = "one" THEN 1 ELSE 2

\* C10: the runs of a session that saw a stop are no more than the sets that
\* succeeded for it: no written signal is seen by two readers.
C10_OneReaderPerSignal ==
    \A s \in Sessions :
        Cardinality({r \in Runs : chat_id[r] = s /\ requested_stop[r]})
            <= Count(total[s])

\* C10 witness: two runs of one session polled for the only signal written;
\* one saw it and, before that run went on, the other's healthy poll saw
\* nothing.
C10_Witness ==
    \E r1, r2 \in Runs :
        /\ r1 # r2
        /\ chat_id[r1] = chat_id[r2]
        /\ total[chat_id[r1]] = "one"
        /\ requested_stop[r1] /\ pc[r1] = "yielded"
        /\ ~requested_stop[r2] /\ pc[r2] \in {"yielded", "pull"}
        /\ missed[chat_id[r1]]

\* The runs that have been started.
Started == BridgeRuns \cup SseRuns

\* C11: a run whose own session has had no successful set is never stopped
\* and emits what it emits undisturbed, whatever was set for the other
\* session and however the run of the other session ended.
C11_SessionsIndependent ==
    \A r \in Started :
        total[chat_id[r]] = "none" =>
            /\ ~requested_stop[r]
            /\ out[r] = Undisturbed(r)

\* C11 witness: two runs of different sessions; one was stopped by the signal
\* of its session, the other, with no signal of its own, ran to its natural
\* end and forwarded its fragment.
C11_Witness ==
    \E r1, r2 \in Started :
        /\ chat_id[r1] # chat_id[r2]
        /\ requested_stop[r1] /\ pc[r1] = "done"
        /\ total[chat_id[r2]] = "none"
        /\ fate[r2] = "ended" /\ Len(frags[r2]) = 1 /\ Len(out[r2]) >= 2

\* The run's output ends with the outcome of a stop: through the bridge the
\* stop marker and RUN_FINISHED; on the SSE path the "[STOPPED]" chunk, or
\* the end-of-stream frame behind it.
EndsAsStopped(r) ==
    LET w == out[r]
        n == Len(w)
    IN  IF mode[r] = "bridge"
        THEN /\ n >= 3
             /\ w[n] = RunFinished(chat_id[r], r)
             /\ w[n - 1].type = "TEXT_MESSAGE_CHUNK"
             /\ w[n - 1].delta = STOP_MARKER
        ELSE /\ n >= 1
             /\ \/ w[n] = SseData(STOPPED)
                \/ n >= 2 /\ w[n] = SseData(DONE) /\ w[n - 1] = SseData(STOPPED)

\* C12: a run whose polls all reached the store and which found, at its
\* second or a later fragment, a signal set while it was streaming does not
\* forward that fragment and ends as Stopped.
C12_StopAtNextBoundary ==
    \A r \in Started :
        (took[r] /\ ~pollFailed[r] /\ Len(frags[r]) >= 2) =>
            /\ Len(out[r]) > stopLen[r] =>
                   out[r][stopLen[r] + 1] \in
                       {SseData(STOPPED),
                        TextMessageChunk(current_message_id[r], STOP_MARKER)}
            /\ pc[r] = "done" => EndsAsStopped(r)

\* The texts of the content deltas of a wire sequence, in order.
IsChunk(e) == e.type = "TEXT_MESSAGE_CHUNK"
Deltas(w) ==
    LET cs == SelectSeq(w, IsChunk) IN [i \in 1..Len(cs) |-> cs[i].delta]

\* C13: a bridged run stopped before any content delta has no message id and
\* no stop marker: its wire sequence is RUN_STARTED, RUN_FINISHED.
C13_NoMarkerWithoutContent ==
    \A r \in BridgeRuns :
        (took[r] /\ stopLen[r] = 1 /\ pc[r] = "done") =>
            /\ out[r] = <<RunStarted(chat_id[r], r), RunFinished(chat_id[r], r)>>
            /\ current_message_id[r] = None

\* C14: the bridge forwards every content chunk as a delta with its text
\* unchanged, blank texts included.  (Runs without a stop and without the
\* text "[STOPPED]", which the bridge reads as the stop.)
C14_EveryContentForwarded ==
    \A r \in BridgeRuns :
        (/\ ~took[r]
         /\ \A i \in 1..Len(frags[r]) :
                HasData(frags[r][i]) => frags[r][i].data # STOPPED) =>
            Deltas(out[r]) = TextsOf(Handled(r))

\* C15: a bridged run without stop and without failure emits RUN_STARTED, one
\* delta per text-carrying fragment in source order, and RUN_FINISHED.
C15_CleanRunForwardsAll ==
    \A r \in BridgeRuns :
        (fate[r] = "ended" /\ ~took[r]) =>
            LET w == out[r]
                n == Len(w)
            IN  /\ n >= 2
                /\ w[1] = RunStarted(chat_id[r], r)
                /\ w[n] = RunFinished(chat_id[r], r)
                /\ \A i \in 2..(n - 1) : IsChunk(w[i])
                /\ Deltas(w) = TextsOf(frags[r])

\* C16: within one run requested_stop is false when the run starts, goes only
\* from false to true, does so only in a step that takes a present stop signal
\* of the run's session out of the store, and is never set back to false.
C16_RequestedStopMonotonic ==
    [][\A r \in Runs :
          /\ (pc[r] = "idle" /\ pc'[r] = "pull") => ~requested_stop'[r]
          /\ requested_stop[r] => requested_stop'[r]
          /\ SeesStop(r) =>
                 /\ pc[r] = "poll"
                 /\ Truthy(db[StopKey(chat_id[r])])
                 /\ db'[StopKey(chat_id[r])] = Nil]_vars

C16_Witness ==
    \E r \in Started :
        /\ requested_stop[r]
        /\ pulledAfterStop[r]
        /\ Truthy(db[StopKey(chat_id[r])])
        /\ pc[r] = "done"

\* C17: a run emits one terminal outcome and emits it last: after Stopped
\* neither Completed ("[DONE]", RUN_FINISHED of a drained source) nor Errored
\* ("[ERROR]", RUN_ERROR) follows, and Completed comes only from a source
\* that ended with no stop requested.
C17_OneTerminalOutcome ==
    \A r \in Started :
        LET w == out[r]
        IN  /\ mode[r] = "bridge" =>
                   \A i \in 1..Len(w) :
                       w[i].type \in Terminal => i = Len(w) /\ pc[r] = "done"
            /\ mode[r] = "sse" =>
                   /\ \A i \in 1..Len(w) :
                          w[i] \in {SseData(DONE), SseData(ERROR)} =>
                              i = Len(w) /\ pc[r] = "done"
                   /\ requested_stop[r] =>
                          \A i \in 1..Len(w) :
                              w[i] \notin {SseData(DONE), SseData(ERROR)}
                   /\ (Len(w) >= 1 /\ w[Len(w)] = SseData(DONE)) =>
                          fate[r] = "ended" /\ ~requested_stop[r]

\* C18: once requested_stop is true the run does not reach _check_stop again
\* and takes nothing more from the store: a stop signal written afterwards
\* leaves the store only by expiry or through another run of the session.
C18_NoPollAfterStop ==
    [][\A r \in Runs :
          requested_stop[r] =>
              /\ pc'[r] # "poll"
              /\ took'[r] = took[r]
              /\ stopLen'[r] = stopLen[r]
              /\ pollFailed'[r] = pollFailed[r]
              /\ (/\ Truthy(db[StopKey(chat_id[r])])
                  /\ db'[StopKey(chat_id[r])] = Nil) =>
                     \/ UNCHANGED <<runVars, runHist>>
                     \/ \E q \in Runs \ {r} :
                            chat_id[q] = chat_id[r] /\ SeesStop(q)]_vars

C18_Witness ==
    \E r \in Started :
        /\ requested_stop[r]
        /\ total[chat_id[r]] = "many"
        /\ db[StopKey(chat_id[r])] = "1"
        /\ pulledAfterStop[r]
        /\ fate[r] = "ended"

\* C19: every content delta of a bridged run, the stop marker included,
\* carries the one message id of the run: the id is made at the first delta
\* and is neither made again nor cleared afterwards.
C19_OneMessageId ==
    \A r \in BridgeRuns :
        LET cs == SelectSeq(out[r], IsChunk)
        IN  /\ uuids[r] <= 1
            /\ (Len(cs) = 0) = (current_message_id[r] = None)
            /\ \A i \in 1..Len(cs) :
                   cs[i].message_id = current_message_id[r]

C19_Witness ==
    \E r \in BridgeRuns :
        /\ pc[r] = "done"
        /\ Len(out[r]) = 4
        /\ out[r][2].delta # STOP_MARKER
        /\ out[r][3].delta = STOP_MARKER
        /\ out[r][2].message_id = out[r][3].message_id

\* A wire sequence w of a run with consumer m that holds nothing the source
\* produced.
NoContent(w, m) ==
    IF m = "bridge"
    THEN \A i \in 1..Len(w) : IsChunk(w[i]) => w[i].delta = STOP_MARKER
    ELSE \A i \in 1..Len(w) :
             w[i] \in {SseData(STOPPED), SseData(DONE), SseData(ERROR)}

\* A signal written with no run of its session left to poll is in the store,
\* and leaves it only by expiry or by the poll of a run of that session.
StaleSignalStays ==
    \A s \in Sessions :
        stale[s] = "kept" =>
            /\ Truthy(db[StopKey(s)])
            /\ stale'[s] # "kept" =>
                   /\ db'[StopKey(s)] = Nil
                   /\ \/ UNCHANGED <<runVars, runHist>>
                      \/ \E r \in Runs : chat_id[r] = s /\ SeesStop(r)

\* Run r makes its first poll while such a signal of its session is kept.
FirstPollOnStale(r) ==
    /\ pc[r] = "poll" /\ pc'[r] # "poll"
    /\ Len(frags[r]) = 1
    /\ stale[chat_id[r]] = "kept"

\* That poll consumes the signal and the run stops there: "[STOPPED]" is what
\* it yields, and nothing of the source is on its wire.
StopsAtFirstBoundary(r) ==
    /\ requested_stop'[r]
    /\ db'[StopKey(chat_id[r])] = Nil
    /\ stale'[chat_id[r]] = "taken"
    /\ chan'[r] = <<STOPPED>>
    /\ NoContent(out'[r], mode[r])

\* Nothing of the source is forwarded by a run that stopped at its first poll.
FirstPollStopForwardsNothing ==
    \A r \in Runs :
        (took'[r] /\ Len(frags'[r]) = 1) => NoContent(out'[r], mode'[r])

\* C20 as amended: a stop signal written for a session when no run of that
\* session will poll again stays in the store until it expires or a run of
\* the session consumes it; the first poll of the next run of the session
\* consumes it if that poll reaches the store, and the run then stops at its
\* first fragment boundary without forwarding any content.
C20_StaleSignalStopsNextRun ==
    [][/\ StaleSignalStays
       /\ \A r \in Runs :
              (FirstPollOnStale(r) /\ ~pollFailed'[r]) => StopsAtFirstBoundary(r)
       /\ FirstPollStopForwardsNothing]_vars

\* Two runs of one session: one has consumed an earlier signal; the signal
\* written after that was taken by the first poll of the other, which is over
\* with nothing of the source on its wire.
C20_Witness ==
    \E r1, r2 \in Started :
        /\ r1 # r2 /\ chat_id[r1] = chat_id[r2]
        /\ total[chat_id[r1]] = "many"
        /\ stale[chat_id[r1]] = "taken"
        /\ took[r1] /\ took[r2]
        /\ Len(frags[r2]) = 1 /\ pc[r2] = "done"
        /\ Len(out[r2]) >= 1
        /\ NoContent(out[r2], mode[r2])

\* C20 as stated: a stop signal written for a session when no run of that
\* session will poll again stays in the store until it expires, and the
\* first poll of the next run of the session consumes it, that run stopping
\* at its first fragment boundary without forwarding any content.
C20_StaleSignalConsumedByFirstPoll ==
    [][/\ StaleSignalStays
       /\ \A r \in Runs : FirstPollOnStale(r) => StopsAtFirstBoundary(r)
       /\ FirstPollStopForwardsNothing]_vars

\* The texts the bridge's blank filter lets through.
NotBlank(t) == Strip(t) # ""

\* C21: a bridged run emits the stop-marker delta and leaves its loop early
\* only if the run consumed a stop signal; with no stop signal ever set for
\* its session, whatever texts the source produces, "[STOPPED]" included, the
\* run forwards every non-blank text it has handled and emits no stop marker.
C21_StopOnlyOnSignal ==
    \A r \in BridgeRuns :
        /\ (\E i \in 1..Len(out[r]) :
                IsChunk(out[r][i]) /\ out[r][i].delta = STOP_MARKER) => took[r]
        /\ (pc[r] = "done" /\ fate[r] = "none") => took[r]
        /\ total[chat_id[r]] = "none" =>
               Deltas(out[r]) = SelectSeq(TextsOf(Handled(r)), NotBlank)

====
